---- MODULE Spec2Model ----
(***************************************************************************)
(* Verification model of the natural-language-to-SQL query service:        *)
(*   core/ai_query_generator.py  (AIQueryGenerator)                        *)
(*   core/views.py               (process_ai_query)                        *)
(*                                                                         *)
(* Python strings are TLA+ strings; a character is a string of length 1.   *)
(* A Python value that is either None or a string is the tuple None (<<>>) *)
(* or Some(s) (<<s>>).                                                     *)
(*                                                                         *)
(* Four specifications share the module:                                   *)
(*   SanitizerSpec  _clean_sql_query applied to bounded raw texts          *)
(*   FallbackSpec   _query_fallback_local applied to bounded user texts    *)
(*   ExecutorSpec   the row conversion of _execute_sql_query on bounded    *)
(*                  rows                                                   *)
(*   Spec           the request pipeline (view, orchestrator, cache, log)  *)
(***************************************************************************)
EXTENDS Integers, Sequences, FiniteSets, TLC

VARIABLES
    raw,        \* SanitizerSpec: the raw candidate text given to the Sanitizer
    cleaned,    \* SanitizerSpec: _clean_sql_query(raw); Pending before the call
    recleaned,  \* SanitizerSpec: _clean_sql_query applied to its own output
    user_text,  \* FallbackSpec: the user text given to the Fallback Generator
    fallback_sql, \* FallbackSpec: _query_fallback_local(user_text); Pending before
    description, \* ExecutorSpec: the column names of cursor.description
    row,        \* ExecutorSpec: one fetched row, a sequence of driver values
    row_dict,   \* ExecutorSpec: the dictionary built from row; Pending before
    api_key,    \* Spec: settings.OPENROUTER_API_KEY is set
    pc,         \* Spec: the position of each request in its handler
    query,      \* Spec: the stripped query text of each request
    model_idx,  \* Spec: the index in models of the model the loop is at
    sql_query,  \* Spec: the orchestrator's local sql_query
    result,     \* Spec: what _execute_sql_query returned
    outcome,    \* Spec: how process_natural_language_query ended
    response,   \* Spec: the HTTP response of each request
    cache,      \* Spec: the cache collaborator, key -> stored value
    query_log,  \* Spec: the rows of the QueryLog table
    trace       \* Spec: history of each request: the calls it made

sanVars == <<raw, cleaned, recleaned>>
fbVars == <<user_text, fallback_sql>>
reqVars == <<pc, query, model_idx, sql_query, result, outcome, response, trace>>
pipeVars == <<api_key, reqVars, cache, query_log>>
cellVars == <<description, row, row_dict>>
vars == <<sanVars, fbVars, pipeVars, cellVars>>

----------------------------------------------------------------------------
(* Optional values *)

None == << >>
Some(s) == <<s>>
Pending == <<"pending", "pending">>
the(v) == v[1]

----------------------------------------------------------------------------
(* Python str operations, on ASCII text *)

\* one character of str.lower()
LowerChar(c) ==
    CASE c = "A" -> "a" [] c = "B" -> "b" [] c = "C" -> "c" [] c = "D" -> "d"
      [] c = "E" -> "e" [] c = "F" -> "f" [] c = "G" -> "g" [] c = "H" -> "h"
      [] c = "I" -> "i" [] c = "J" -> "j" [] c = "K" -> "k" [] c = "L" -> "l"
      [] c = "M" -> "m" [] c = "N" -> "n" [] c = "O" -> "o" [] c = "P" -> "p"
      [] c = "Q" -> "q" [] c = "R" -> "r" [] c = "S" -> "s" [] c = "T" -> "t"
      [] c = "U" -> "u" [] c = "V" -> "v" [] c = "W" -> "w" [] c = "X" -> "x"
      [] c = "Y" -> "y" [] c = "Z" -> "z" [] OTHER -> c

\* str.lower(): every character lower-cased (computed by halves)
RECURSIVE lower(_)
lower(s) ==
    IF s = "" THEN ""
    ELSE IF Len(s) = 1 THEN LowerChar(s)
    ELSE lower(SubSeq(s, 1, Len(s) \div 2))
         \o lower(SubSeq(s, Len(s) \div 2 + 1, Len(s)))

\* s.startswith(w)
startswith(s, w) == Len(s) >= Len(w) /\ SubSeq(s, 1, Len(w)) = w

\* s.endswith(w)
endswith(s, w) ==
    Len(s) >= Len(w) /\ SubSeq(s, Len(s) - Len(w) + 1, Len(s)) = w

\* w in s   (substring test)
Contains(s, w) ==
    \E i \in 1..(Len(s) - Len(w) + 1) : SubSeq(s, i, i + Len(w) - 1) = w

\* the characters str.strip() removes
IsSpace(c) == c \in {" ", "\n", "\t", "\r"}

RECURSIVE lstrip(_)
lstrip(s) ==
    IF s /= "" /\ IsSpace(SubSeq(s, 1, 1)) THEN lstrip(SubSeq(s, 2, Len(s)))
    ELSE s

RECURSIVE rstrip(_)
rstrip(s) ==
    IF s /= "" /\ IsSpace(SubSeq(s, Len(s), Len(s)))
    THEN rstrip(SubSeq(s, 1, Len(s) - 1))
    ELSE s

\* str.strip()
strip(s) == rstrip(lstrip(s))

\* the backtick character (a string literal cannot hold an unpaired one)
Backtick == SubSeq("`'", 1, 1)

\* the markdown code fence, and the fence with its language tag
Fence == Backtick \o Backtick \o Backtick
FenceSql == Fence \o "sql"

\* re.sub(fence + NL?, "", s): every leftmost non-overlapping occurrence
\* of the literal fence, with one directly following newline, is removed
RECURSIVE re_sub_fence(_, _)
re_sub_fence(fence, s) ==
    LET hits == {i \in 1..(Len(s) - Len(fence) + 1) :
                    SubSeq(s, i, i + Len(fence) - 1) = fence}
    IN  IF hits = {} THEN s
        ELSE LET first == CHOOSE i \in hits : \A k \in hits : i <= k
                 rest == SubSeq(s, first + Len(fence), Len(s))
             IN  SubSeq(s, 1, first - 1)
                 \o re_sub_fence(fence,
                        IF startswith(rest, "\n")
                        THEN SubSeq(rest, 2, Len(rest))
                        ELSE rest)

----------------------------------------------------------------------------
(* SQL Sanitizer: AIQueryGenerator._clean_sql_query *)

\* faulty variant: the keyword create is missing from the list
prohibited_without_create ==
    {"drop", "delete", "update", "insert", "alter", "truncate", "grant",
     "revoke"}

prohibited ==
    {"drop", "delete", "update", "insert", "alter", "create", "truncate",
     "grant", "revoke"}

\* the text after the markdown fences are removed and the whitespace trimmed
strip_markdown(sql_text) ==
    strip(re_sub_fence(Fence, re_sub_fence(FenceSql, sql_text)))

\* faulty variants of the trailing-semicolon normalisation
ensure_semicolon_never(sql_text) == sql_text
ensure_semicolon_always(sql_text) == sql_text \o ";"

\* the trailing-semicolon normalisation
ensure_semicolon(sql_text) ==
    IF ~endswith(sql_text, ";") THEN sql_text \o ";" ELSE sql_text

clean_sql_query(sql_text) ==
    IF sql_text = "" THEN None
    ELSE LET stripped == strip_markdown(sql_text)
             sql_lower == lower(stripped)
         IN  IF ~startswith(sql_lower, "select") THEN None
             ELSE IF \E op \in prohibited : Contains(sql_lower, op) THEN None
             ELSE IF ~Contains(sql_lower, "employees") THEN None
             ELSE Some(ensure_semicolon(stripped))

----------------------------------------------------------------------------
(* Rule-based Fallback Generator: AIQueryGenerator._query_fallback_local *)

\* any(word in s for word in words)
any_in(words, s) == \E w \in words : Contains(s, w)

\* sep.join(seq)
RECURSIVE join(_, _)
join(sep, seq) ==
    IF seq = << >> THEN ""
    ELSE IF Len(seq) = 1 THEN seq[1]
    ELSE seq[1] \o sep \o join(sep, Tail(seq))

IsDigit(c) == c \in {"0", "1", "2", "3", "4", "5", "6", "7", "8", "9"}

\* the longest run of digits that s starts with
RECURSIVE digit_run(_)
digit_run(s) ==
    IF s /= "" /\ IsDigit(SubSeq(s, 1, 1))
    THEN SubSeq(s, 1, 1) \o digit_run(SubSeq(s, 2, Len(s)))
    ELSE ""

\* faulty variant: only the first digit is taken
RECURSIVE first_number_one_digit(_)
first_number_one_digit(s) ==
    IF s = "" THEN ""
    ELSE IF IsDigit(SubSeq(s, 1, 1)) THEN SubSeq(s, 1, 1)
    ELSE first_number_one_digit(SubSeq(s, 2, Len(s)))

\* re.findall(r'\d+', s): its first element, "" when the list is empty
RECURSIVE first_number(_)
first_number(s) ==
    IF s = "" THEN ""
    ELSE IF IsDigit(SubSeq(s, 1, 1)) THEN digit_run(s)
    ELSE first_number(SubSeq(s, 2, Len(s)))

\* the intent predicates
asking_for_salary(query_lower) ==
    any_in({"salary", "pay", "wage", "earning", "income"}, query_lower)
asking_for_department(query_lower) ==
    any_in({"department", "dept"}, query_lower)
asking_for_position(query_lower) ==
    any_in({"position", "job", "title", "role"}, query_lower)
asking_for_date(query_lower) ==
    any_in({"joined", "hired", "date", "when"}, query_lower)
asking_for_details(query_lower) ==
    any_in({"details", "information", "everything", "all details"}, query_lower)
asking_for_count(query_lower) ==
    any_in({"count", "how many", "number of"}, query_lower)

\* the column list: name, then the columns of the matched intents
columns(query_lower) ==
    <<"name">>
    \o (IF asking_for_department(query_lower) \/ Contains(query_lower, "department")
        THEN <<"department">> ELSE << >>)
    \o (IF asking_for_salary(query_lower) THEN <<"salary">> ELSE << >>)
    \o (IF asking_for_position(query_lower) THEN <<"position">> ELSE << >>)
    \o (IF asking_for_date(query_lower) THEN <<"date_of_join">> ELSE << >>)

\* faulty variant: details intent does not select every column
select_clause_without_star(query_lower) ==
    IF asking_for_count(query_lower) THEN "COUNT(*) as count"
    ELSE join(", ", columns(query_lower))

select_clause(query_lower) ==
    IF asking_for_details(query_lower) THEN "*"
    ELSE IF asking_for_count(query_lower) THEN "COUNT(*) as count"
    ELSE join(", ", columns(query_lower))

departments ==
    <<"IT", "HR", "Sales", "Marketing", "Finance", "Engineering", "Operations">>

\* the loop "for dept in departments: if dept.lower() in query_lower": the
\* index of the first department it stops at, 0 when it runs to the end
first_department(query_lower) ==
    LET hits == { i \in 1..Len(departments) :
                    Contains(query_lower, lower(departments[i])) }
    IN  IF hits = {} THEN 0 ELSE CHOOSE i \in hits : \A j \in hits : i <= j

\* The rules, last to first; each one returns its template or passes the
\* text on to the rule that follows it in the source.

\* faulty variant: no default, nothing is returned for an unmatched text
default_query_missing == ""

default_query == "SELECT name FROM employees ORDER BY name LIMIT 20;"

position_searches(query_lower) ==
    IF asking_for_position(query_lower)
    THEN "SELECT name, position, department FROM employees WHERE position IS NOT NULL ORDER BY name LIMIT 100;"
    ELSE default_query

\* faulty variant: the position rule is tried before the email rule
email_searches_after_position(query_lower) ==
    IF asking_for_position(query_lower) THEN position_searches(query_lower)
    ELSE IF Contains(query_lower, "email")
    THEN "SELECT name, email, department FROM employees WHERE email IS NOT NULL ORDER BY name LIMIT 100;"
    ELSE default_query

email_searches(query_lower) ==
    IF Contains(query_lower, "email")
    THEN "SELECT name, email, department FROM employees WHERE email IS NOT NULL ORDER BY name LIMIT 100;"
    ELSE position_searches(query_lower)

name_searches(query_lower) ==
    IF /\ Contains(query_lower, "name")
       /\ any_in({"contains", "like", "starts", "ends"}, query_lower)
    THEN "SELECT name FROM employees WHERE name IS NOT NULL ORDER BY name LIMIT 100;"
    ELSE email_searches(query_lower)

\* faulty variant: the rows are ordered by a created_at column
last_year_template_created_at(clause) ==
    "\n                SELECT " \o clause \o " FROM employees \n"
    \o "                WHERE (date_of_join >= CURRENT_DATE - INTERVAL '1 year' \n"
    \o "                   OR hire_date >= CURRENT_DATE - INTERVAL '1 year')\n"
    \o "                ORDER BY created_at DESC LIMIT 50;\n"
    \o "                "

last_year_template(clause) ==
    "\n                SELECT " \o clause \o " FROM employees \n"
    \o "                WHERE (date_of_join >= CURRENT_DATE - INTERVAL '1 year' \n"
    \o "                   OR hire_date >= CURRENT_DATE - INTERVAL '1 year')\n"
    \o "                ORDER BY COALESCE(date_of_join, hire_date) DESC LIMIT 50;\n"
    \o "                "

this_year_template(clause) ==
    "\n                SELECT " \o clause \o " FROM employees \n"
    \o "                WHERE (EXTRACT(YEAR FROM date_of_join) = EXTRACT(YEAR FROM CURRENT_DATE)\n"
    \o "                   OR EXTRACT(YEAR FROM hire_date) = EXTRACT(YEAR FROM CURRENT_DATE))\n"
    \o "                ORDER BY COALESCE(date_of_join, hire_date) DESC LIMIT 50;\n"
    \o "                "

date_queries(query_lower) ==
    IF any_in({"joined", "hired", "recent", "new"}, query_lower)
    THEN LET clause == IF ~asking_for_date(query_lower)
                       THEN "name, department, date_of_join"
                       ELSE select_clause(query_lower)
         IN  IF Contains(query_lower, "last year") \/ Contains(query_lower, "2023")
             THEN last_year_template(clause)
             ELSE IF Contains(query_lower, "this year") \/ Contains(query_lower, "2024")
             THEN this_year_template(clause)
             ELSE name_searches(query_lower)
    ELSE name_searches(query_lower)

salary_queries(query_lower) ==
    IF /\ asking_for_salary(query_lower)
       /\ any_in({"greater", "more than", "above", "over"}, query_lower)
       /\ first_number(query_lower) /= ""
    THEN LET amount == first_number(query_lower)
             clause == IF ~asking_for_salary(query_lower)
                       THEN "name, salary, department"
                       ELSE select_clause(query_lower)
         IN  "SELECT " \o clause \o " FROM employees WHERE salary > " \o amount
             \o " ORDER BY salary DESC LIMIT 50;"
    ELSE date_queries(query_lower)

department_queries(query_lower) ==
    IF Contains(query_lower, "department") /\ first_department(query_lower) /= 0
    THEN "SELECT " \o select_clause(query_lower)
         \o " FROM employees WHERE LOWER(department) LIKE '%"
         \o lower(departments[first_department(query_lower)])
         \o "%' ORDER BY name LIMIT 50;"
    ELSE salary_queries(query_lower)

\* faulty variant: the list shows the names only
all_employees_names_only(query_lower) ==
    IF /\ any_in({"all employees", "show employees", "list employees"}, query_lower)
       /\ ~asking_for_details(query_lower)
    THEN "SELECT name FROM employees ORDER BY name LIMIT 100;"
    ELSE department_queries(query_lower)

all_employees(query_lower) ==
    IF /\ any_in({"all employees", "show employees", "list employees"}, query_lower)
       /\ ~asking_for_details(query_lower)
    THEN "SELECT " \o select_clause(query_lower)
         \o " FROM employees ORDER BY name LIMIT 100;"
    ELSE department_queries(query_lower)

\* faulty variant: a department name filters the count without the word
\* department
count_queries_any_name(query_lower) ==
    IF asking_for_count(query_lower)
    THEN IF first_department(query_lower) /= 0
         THEN "SELECT COUNT(*) as count FROM employees WHERE LOWER(department) LIKE '%"
              \o lower(departments[first_department(query_lower)]) \o "%';"
         ELSE IF Contains(query_lower, "department")
         THEN "SELECT department, COUNT(*) as count FROM employees WHERE department IS NOT NULL GROUP BY department ORDER BY count DESC;"
         ELSE "SELECT COUNT(*) as total_employees FROM employees;"
    ELSE all_employees(query_lower)

count_queries(query_lower) ==
    IF asking_for_count(query_lower)
    THEN IF Contains(query_lower, "department")
         THEN IF first_department(query_lower) /= 0
              THEN "SELECT COUNT(*) as count FROM employees WHERE LOWER(department) LIKE '%"
                   \o lower(departments[first_department(query_lower)]) \o "%';"
              ELSE "SELECT department, COUNT(*) as count FROM employees WHERE department IS NOT NULL GROUP BY department ORDER BY count DESC;"
         ELSE "SELECT COUNT(*) as total_employees FROM employees;"
    ELSE all_employees(query_lower)

query_fallback_local(user_query) == count_queries(lower(user_query))

----------------------------------------------------------------------------
(* Query Executor: AIQueryGenerator._execute_sql_query *)

MaxRows == 1

\* how the body of the try block can go: cursor.execute raises, the
\* conversion of a fetched row raises, or every row is converted
DBOutcomes ==
    { [ok |-> FALSE, rows |-> << >>, columns |-> << >>,
       error |-> "column does not exist"],
      [ok |-> FALSE, rows |-> <<"row">>, columns |-> <<"name">>,
       error |-> "value cannot be converted"] }
    \cup { [ok |-> TRUE, rows |-> [i \in 1..n |-> "row"], columns |-> <<"name">>,
            error |-> ""] : n \in 0..MaxRows }

\* faulty variant: the rows converted before the error are returned
execute_sql_query_partial(db) ==
    [success |-> db.ok, data |-> db.rows, columns |-> db.columns,
     row_count |-> Len(db.rows),
     error |-> IF db.ok THEN None ELSE Some(db.error)]

execute_sql_query(db) ==
    IF db.ok
    THEN [success |-> TRUE, data |-> db.rows, columns |-> db.columns,
          row_count |-> Len(db.rows), error |-> None]
    ELSE [success |-> FALSE, data |-> << >>, columns |-> << >>,
          row_count |-> 0, error |-> Some(db.error)]

\* The values a database driver hands over, by Python type: a is the year of
\* a date, the thousandths of a float, the value of an int, the hundredths
\* of a Decimal of scale 2; b and c are the month and the day of a date.
DriverValue(type, a, b, c, text) ==
    [type |-> type, a |-> a, b |-> b, c |-> c, text |-> text]

\* a converted cell as it is serialised: a JSON string, number (in
\* hundredths) or null
JsonString(text) == [json |-> "string", text |-> text, centi |-> 0]
JsonNumber(centi) == [json |-> "number", text |-> "", centi |-> centi]
JsonNull == [json |-> "null", text |-> "", centi |-> 0]

\* str(n) for a natural number n
RECURSIVE str_int(_)
str_int(n) ==
    IF n < 10 THEN SubSeq("0123456789", n + 1, n + 1)
    ELSE str_int(n \div 10) \o SubSeq("0123456789", (n % 10) + 1, (n % 10) + 1)

\* n written with at least width digits
RECURSIVE zero_pad(_, _)
zero_pad(n, width) ==
    IF Len(str_int(n)) >= width THEN str_int(n)
    ELSE "0" \o zero_pad(n, width - 1)

\* date.isoformat()
isoformat(value) ==
    zero_pad(value.a, 4) \o "-" \o zero_pad(value.b, 2) \o "-" \o zero_pad(value.c, 2)

\* the digits of a fraction without its trailing zeros, one digit at least
RECURSIVE strip_zeros(_)
strip_zeros(digits) ==
    IF Len(digits) > 1 /\ endswith(digits, "0")
    THEN strip_zeros(SubSeq(digits, 1, Len(digits) - 1))
    ELSE digits

\* str(value) of a float given in thousandths
str_float(milli) ==
    str_int(milli \div 1000) \o "." \o strip_zeros(zero_pad(milli % 1000, 3))

\* str(value) of a Decimal of scale 2 given in hundredths
str_decimal(centi) ==
    str_int(centi \div 100) \o "." \o zero_pad(centi % 100, 2)

\* round(x, 2) of a float given in thousandths, in hundredths: to the
\* nearest, a tie to the even neighbour (the ties among the values used are
\* exact in binary)
round2(milli) ==
    LET q == milli \div 10
        r == milli % 10
    IN  IF r < 5 THEN q
        ELSE IF r > 5 THEN q + 1
        ELSE IF q % 2 = 0 THEN q ELSE q + 1

\* str(value)
str_value(value) ==
    CASE value.type = "str" -> value.text
      [] value.type = "int" -> str_int(value.a)
      [] value.type = "float" -> str_float(value.a)
      [] value.type = "Decimal" -> str_decimal(value.a)
      [] value.type = "date" -> isoformat(value)
      [] OTHER -> "None"

\* float(value) in thousandths, for the types isinstance(value, (float, int))
\* lets through
float_milli(value) == IF value.type = "int" THEN value.a * 1000 ELSE value.a

\* the branches of the conversion of one cell
convert_cell(value, column_name) ==
    IF value.type = "date"
    THEN JsonString(isoformat(value))
    ELSE IF value.type \in {"float", "int"} /\ Contains(lower(column_name), "salary")
    THEN JsonNumber(round2(float_milli(value)))
    ELSE IF value.type = "NoneType"
    THEN JsonNull
    ELSE JsonString(str_value(value))

\* columns[i] if i < len(columns) else "column_{i}", i counted from 1 here
column_name_at(column_names, i) ==
    IF i <= Len(column_names) THEN column_names[i] ELSE "column_" \o str_int(i - 1)

\* the dictionary of one row: a later cell of the same column name replaces
\* an earlier one
convert_row(values, column_names) ==
    LET names == { column_name_at(column_names, i) : i \in 1..Len(values) }
        last(n) == CHOOSE i \in 1..Len(values) :
                      /\ column_name_at(column_names, i) = n
                      /\ \A j \in (i + 1)..Len(values) :
                            column_name_at(column_names, j) /= n
    IN  [n \in names |-> convert_cell(values[last(n)], n)]

----------------------------------------------------------------------------
(* Remote Query Generator: AIQueryGenerator._query_openrouter *)

models ==
    <<"meta-llama/llama-3.1-8b-instruct:free",
      "microsoft/phi-3-mini-128k-instruct:free",
      "google/gemma-7b-it:free">>

\* the texts a model can answer with
RemoteContents ==
    { FenceSql \o "\nSELECT name FROM employees LIMIT 100\n" \o Fence,
      "DROP TABLE employees;" }

\* what one requests.post can end in: an exception (timeout, connection
\* error), a response with a status other than 200, a 200 response whose
\* body lacks the choices structure, a 200 response carrying a text
RemoteReplies ==
    { [raised |-> TRUE, status |-> 0, content |-> None],
      [raised |-> FALSE, status |-> 429, content |-> None],
      [raised |-> FALSE, status |-> 200, content |-> None] }
    \cup { [raised |-> FALSE, status |-> 200, content |-> Some(c)] :
             c \in RemoteContents }

\* one iteration of the loop over models: how it ends and, when it ends in
\* a return statement, the value returned
attempt(reply) ==
    IF reply.raised THEN [ended |-> "exception", value |-> None]
    ELSE IF reply.status = 200
         THEN IF reply.content = None
              THEN [ended |-> "exception", value |-> None]
              ELSE [ended |-> "return",
                    value |-> clean_sql_query(strip(reply.content[1]))]
         ELSE [ended |-> "status", value |-> None]

\* faulty variant: a failed attempt ends the loop
after_failed_attempt_break(idx) == [pc |-> "fallback", model_idx |-> idx + 1]

\* "continue": the loop moves to the next model, or ends with return None
after_failed_attempt(idx) ==
    IF idx < Len(models) THEN [pc |-> "remote", model_idx |-> idx + 1]
    ELSE [pc |-> "fallback", model_idx |-> idx + 1]

----------------------------------------------------------------------------
(* Orchestrator: AIQueryGenerator.process_natural_language_query *)

\* Python truth value of a None-or-string value
truthy(v) == v /= None /\ v[1] /= ""

\* faulty variant: whatever the remote generator returned is executed
after_remote_executes(value) == "execute"

\* faulty variant: the rule-based generator is never used
use_fallback_never(value) == FALSE

\* "if not sql_query" after the remote generator returned
use_fallback(value) == ~truthy(value)

\* where the orchestrator goes with the value _query_openrouter returned
after_remote(value) == IF use_fallback(value) THEN "fallback" ELSE "execute"

\* the response dictionary built after the execution
execution_response(user_query, sql, res) ==
    [success |-> res.success, original_query |-> user_query,
     sql_query |-> Some(sql), data |-> res.data, columns |-> res.columns,
     row_count |-> res.row_count, error |-> res.error]

\* the dictionary returned when no generator produced a query
no_query_response(user_query) ==
    [success |-> FALSE, original_query |-> user_query, sql_query |-> None,
     data |-> << >>, columns |-> << >>, row_count |-> 0,
     error |-> Some("Failed to generate SQL query from all available methods")]

\* faulty variant: the except clause raises again
caught_exception_reraised(user_query, message) ==
    [raised |-> TRUE,
     response |->
        [success |-> FALSE, original_query |-> user_query, sql_query |-> None,
         data |-> << >>, columns |-> << >>, row_count |-> 0,
         error |-> Some("Query processing failed: " \o message)]]

\* the except clause: the failure dictionary is returned, nothing is raised
caught_exception(user_query, message) ==
    [raised |-> FALSE,
     response |->
        [success |-> FALSE, original_query |-> user_query, sql_query |-> None,
         data |-> << >>, columns |-> << >>, row_count |-> 0,
         error |-> Some("Query processing failed: " \o message)]]

\* faulty variant: every call is logged as a success
log_entry_always_success(p, user_query, sql, success, error_message, result_count) ==
    [request |-> p, original_query |-> user_query, generated_sql |-> sql,
     success |-> TRUE, error_message |-> error_message,
     result_count |-> result_count, cached |-> FALSE]

\* the arguments of a _log_query call; request identifies the row
log_entry(p, user_query, sql, success, error_message, result_count) ==
    [request |-> p, original_query |-> user_query, generated_sql |-> sql,
     success |-> success, error_message |-> error_message,
     result_count |-> result_count, cached |-> FALSE]

\* faulty variant: the exception of QueryLog.objects.create leaves _log_query
log_query_unguarded(table, entry, create_ok) ==
    [table |-> IF create_ok THEN table \cup {entry} ELSE table,
     raised |-> ~create_ok]

\* _log_query: the row is created unless QueryLog.objects.create raises,
\* which is absorbed: the call itself never raises
log_query(table, entry, create_ok) ==
    [table |-> IF create_ok THEN table \cup {entry} ELSE table,
     raised |-> FALSE]

----------------------------------------------------------------------------
(* Request handler: views.process_ai_query *)

Reqs == {1, 2}

QueryTexts == {"Show me all employees in the company",
               "  Show me all employees in the company\n"}

\* request bodies: text that is not JSON, bytes that are not UTF-8 text,
\* JSON that is no object or whose query is not a text, a JSON object
\* without a query, a JSON object with a query text
Bodies ==
    { [kind |-> "malformed", query |-> ""],
      [kind |-> "undecodable", query |-> ""],
      [kind |-> "not_text", query |-> ""],
      [kind |-> "missing", query |-> ""],
      [kind |-> "json", query |-> ""],
      [kind |-> "json", query |-> "   "] }
    \cup { [kind |-> "json", query |-> q] : q \in QueryTexts }

\* hashlib.md5(query.encode()).hexdigest(), taken as collision-free
md5_hexdigest(text) == "md5<" \o text \o ">"

cache_key(text) == "ai_query_" \o md5_hexdigest(text)

CacheKeys == { cache_key(strip(q)) : q \in QueryTexts }

\* the timeout given to cache.set, in seconds
cache_timeout == 300

error_response(status, message) ==
    [status |-> status, success |-> FALSE, error |-> Some(message)]

\* data.get('query', '').strip()
get_query(body) == IF body.kind = "missing" THEN "" ELSE strip(body.query)

\* faulty variant: the cache is not looked up
early_response_uncached(body, stored) ==
    IF body.kind = "malformed"
    THEN Some(error_response(400, "Invalid JSON in request body"))
    ELSE IF body.kind \in {"undecodable", "not_text"}
    THEN Some(error_response(500, "Unexpected error"))
    ELSE IF get_query(body) = ""
    THEN Some(error_response(400, "Query cannot be empty"))
    ELSE Pending

\* faulty variant: a stored result is served without the cached mark set
early_response_cached_false(body, stored) ==
    IF body.kind = "malformed"
    THEN Some(error_response(400, "Invalid JSON in request body"))
    ELSE IF body.kind \in {"undecodable", "not_text"}
    THEN Some(error_response(500, "Unexpected error"))
    ELSE IF get_query(body) = ""
    THEN Some(error_response(400, "Query cannot be empty"))
    ELSE LET cached_result == stored[cache_key(get_query(body))]
         IN  IF cached_result /= None
             THEN Some([status |-> 200, cached |-> FALSE]
                       @@ the(cached_result).value)
             ELSE Pending

\* the handler up to the cache lookup: the response it returns at once, or
\* Pending when the query has to be processed. json.loads raises
\* JSONDecodeError for a malformed text and UnicodeDecodeError for bytes it
\* cannot decode; data.get or strip raises AttributeError when the document
\* is no object or the query no text; the last two reach "except Exception"
early_response(body, stored) ==
    IF body.kind = "malformed"
    THEN Some(error_response(400, "Invalid JSON in request body"))
    ELSE IF body.kind \in {"undecodable", "not_text"}
    THEN Some(error_response(500, "Unexpected error"))
    ELSE IF get_query(body) = ""
    THEN Some(error_response(400, "Query cannot be empty"))
    ELSE LET cached_result == stored[cache_key(get_query(body))]
         IN  IF cached_result /= None
             THEN Some([status |-> 200, cached |-> TRUE]
                       @@ the(cached_result).value)
             ELSE Pending

\* faulty variant: every answer is marked as served from the cache
final_response_cached(out) ==
    IF out.raised THEN error_response(500, "Unexpected error")
    ELSE [status |-> 200, cached |-> TRUE] @@ out.response

\* the handler after process_natural_language_query ended
final_response(out) ==
    IF out.raised THEN error_response(500, "Unexpected error")
    ELSE [status |-> 200, cached |-> FALSE] @@ out.response

\* faulty variant: every result is cached, the failed ones included
cache_after_always(stored, text, out) ==
    IF ~out.raised
    THEN [stored EXCEPT ![cache_key(text)] =
            Some([value |-> out.response, timeout |-> cache_timeout])]
    ELSE stored

\* faulty variant: nothing is ever cached
cache_after_never(stored, text, out) == stored

\* cache.set(cache_key, result, 300) for a successful result only
cache_after(stored, text, out) ==
    IF ~out.raised /\ out.response.success
    THEN [stored EXCEPT ![cache_key(text)] =
            Some([value |-> out.response, timeout |-> cache_timeout])]
    ELSE stored

\* the orchestrator has answered request o and, if the handler cached that
\* answer, the cache_timeout seconds of the cached value have not run out
InWindow(o, stored) ==
    /\ pc[o] = "done"
    /\ outcome[o] /= Pending
    /\ (~the(outcome[o]).raised /\ the(outcome[o]).response.success)
            => stored[cache_key(query[o])] /= None

\* the history of a request: body is the kind of its body, within the
\* requests with the same text that were InWindow when it arrived,
\* introspected whether an AIQueryGenerator was constructed (its __init__
\* reads the schema of the employees table)
NoTrace ==
    [calls |-> << >>, last_ended |-> "", sanitized |-> {}, executed |-> << >>,
     fallback_called |-> FALSE, logged |-> << >>, raised |-> FALSE,
     cache_hit |-> FALSE, rejected |-> FALSE, body |-> "", within |-> {},
     log_failed |-> FALSE, introspected |-> FALSE]

PipeIdle ==
    /\ api_key = FALSE
    /\ pc = [p \in Reqs |-> "done"]
    /\ query = [p \in Reqs |-> ""]
    /\ model_idx = [p \in Reqs |-> 1]
    /\ sql_query = [p \in Reqs |-> None]
    /\ result = [p \in Reqs |-> Pending]
    /\ outcome = [p \in Reqs |-> Pending]
    /\ response = [p \in Reqs |-> Pending]
    /\ cache = [k \in CacheKeys |-> None]
    /\ query_log = {}
    /\ trace = [p \in Reqs |-> NoTrace]

SanIdle ==
    /\ raw = ""
    /\ cleaned = Pending
    /\ recleaned = Pending

FbIdle ==
    /\ user_text = ""
    /\ fallback_sql = Pending

CellIdle ==
    /\ description = << >>
    /\ row = << >>
    /\ row_dict = Pending

Init ==
    /\ api_key \in BOOLEAN
    /\ pc = [p \in Reqs |-> "start"]
    /\ query = [p \in Reqs |-> ""]
    /\ model_idx = [p \in Reqs |-> 1]
    /\ sql_query = [p \in Reqs |-> None]
    /\ result = [p \in Reqs |-> Pending]
    /\ outcome = [p \in Reqs |-> Pending]
    /\ response = [p \in Reqs |-> Pending]
    /\ cache = [k \in CacheKeys |-> None]
    /\ query_log = {}
    /\ trace = [p \in Reqs |-> NoTrace]
    /\ SanIdle
    /\ FbIdle
    /\ CellIdle

\* POST /query/ arrives: the body is parsed and the cache looked up
\* (the requests are numbered in the order of their arrival)
Receive(p) ==
    /\ pc[p] = "start"
    /\ \A o \in Reqs : o < p => pc[o] /= "start"
    /\ \E body \in Bodies :
        LET early == early_response(body, cache)
        IN  /\ pc' = [pc EXCEPT ![p] = IF early = Pending THEN "remote" ELSE "done"]
            /\ query' = [query EXCEPT ![p] = get_query(body)]
            /\ response' = [response EXCEPT ![p] = early]
            /\ trace' = [trace EXCEPT
                    ![p].cache_hit = early /= Pending /\ the(early).status = 200,
                    ![p].body = body.kind,
                    ![p].introspected = early = Pending,
                    ![p].within =
                        { o \in Reqs \ {p} :
                            /\ get_query(body) /= ""
                            /\ query[o] = get_query(body)
                            /\ InWindow(o, cache) }]
    /\ UNCHANGED <<model_idx, sql_query, result, outcome, cache, query_log,
                   api_key, sanVars, fbVars, cellVars>>

\* _query_openrouter without a credential: return None, no network call
RemoteSkip(p) ==
    /\ pc[p] = "remote"
    /\ ~api_key
    /\ pc' = [pc EXCEPT ![p] = after_remote(None)]
    /\ UNCHANGED <<query, model_idx, sql_query, result, outcome, response,
                   trace, cache, query_log, api_key, sanVars, fbVars, cellVars>>

\* one iteration of the loop over models: one network call
RemoteAttempt(p) ==
    /\ pc[p] = "remote"
    /\ api_key
    /\ model_idx[p] <= Len(models)
    /\ \E reply \in RemoteReplies :
        LET a == attempt(reply)
            next == after_failed_attempt(model_idx[p])
        IN  /\ trace' = [trace EXCEPT
                    ![p].calls = Append(@, model_idx[p]),
                    ![p].last_ended = a.ended,
                    ![p].sanitized =
                        IF a.value /= None THEN @ \cup {a.value[1]} ELSE @,
                    ![p].rejected =
                        @ \/ (a.ended = "return" /\ a.value = None)]
            /\ IF a.ended = "return"
               THEN /\ sql_query' = [sql_query EXCEPT ![p] = a.value]
                    /\ pc' = [pc EXCEPT ![p] = after_remote(a.value)]
                    /\ UNCHANGED model_idx
               ELSE /\ pc' = [pc EXCEPT ![p] = next.pc]
                    /\ model_idx' = [model_idx EXCEPT ![p] = next.model_idx]
                    /\ UNCHANGED sql_query
    /\ UNCHANGED <<query, result, outcome, response, cache, query_log,
                   api_key, sanVars, fbVars, cellVars>>

\* the rule-based generator is called; an exception escaping it reaches the
\* orchestrator's except clause
Fallback(p) ==
    /\ pc[p] = "fallback"
    /\ \E raises \in BOOLEAN :
        LET generated == Some(query_fallback_local(query[p]))
        IN  /\ trace' = [trace EXCEPT ![p].fallback_called = TRUE,
                                      ![p].raised = raises]
            /\ sql_query' = [sql_query EXCEPT ![p] =
                                IF raises THEN @ ELSE generated]
            /\ pc' = [pc EXCEPT ![p] = IF raises THEN "except" ELSE "execute"]
    /\ UNCHANGED <<query, model_idx, result, outcome, response, cache,
                   query_log, api_key, sanVars, fbVars, cellVars>>

\* without a query the failure dictionary is returned; otherwise the
\* generated query is handed to the Executor
Execute(p) ==
    /\ pc[p] = "execute"
    /\ IF ~truthy(sql_query[p])
       THEN /\ outcome' = [outcome EXCEPT ![p] =
                    Some([raised |-> FALSE,
                          response |-> no_query_response(query[p])])]
            /\ pc' = [pc EXCEPT ![p] = "respond"]
            /\ UNCHANGED <<result, trace>>
       ELSE /\ \E db \in DBOutcomes :
                result' = [result EXCEPT ![p] = Some(execute_sql_query(db))]
            /\ trace' = [trace EXCEPT ![p].executed = Append(@, sql_query[p][1])]
            /\ pc' = [pc EXCEPT ![p] = "log"]
            /\ UNCHANGED outcome
    /\ UNCHANGED <<query, model_idx, sql_query, response, cache,
                   query_log, api_key, sanVars, fbVars, cellVars>>

\* the response is built, the query logged and the response returned
LogAndReturn(p) ==
    /\ pc[p] = "log"
    /\ \E create_ok \in BOOLEAN :
        LET res == the(result[p])
            entry == log_entry(p, query[p], sql_query[p][1], res.success,
                               res.error, res.row_count)
            lq == log_query(query_log, entry, create_ok)
        IN  /\ query_log' = lq.table
            /\ trace' = [trace EXCEPT ![p].logged = Append(@, entry),
                                      ![p].log_failed = ~create_ok]
            /\ IF lq.raised
               THEN /\ pc' = [pc EXCEPT ![p] = "except"]
                    /\ UNCHANGED outcome
               ELSE /\ pc' = [pc EXCEPT ![p] = "respond"]
                    /\ outcome' = [outcome EXCEPT ![p] =
                            Some([raised |-> FALSE,
                                  response |-> execution_response(query[p],
                                                    sql_query[p][1], res)])]
    /\ UNCHANGED <<query, model_idx, sql_query, result, response, cache,
                   api_key, sanVars, fbVars, cellVars>>

\* the except clause of the orchestrator: log the failure, return it
HandleException(p) ==
    /\ pc[p] = "except"
    /\ \E create_ok \in BOOLEAN :
        LET message == "unexpected fault"
            entry == log_entry(p, query[p], "", FALSE, Some(message), 0)
            lq == log_query(query_log, entry, create_ok)
            caught == caught_exception(query[p], message)
        IN  /\ query_log' = lq.table
            /\ trace' = [trace EXCEPT ![p].logged = Append(@, entry),
                                      ![p].log_failed = @ \/ ~create_ok]
            /\ outcome' = [outcome EXCEPT ![p] =
                    Some([caught EXCEPT !.raised = @ \/ lq.raised])]
    /\ pc' = [pc EXCEPT ![p] = "respond"]
    /\ UNCHANGED <<query, model_idx, sql_query, result, response, cache,
                   api_key, sanVars, fbVars, cellVars>>

\* the handler caches a successful result and answers
Respond(p) ==
    /\ pc[p] = "respond"
    /\ cache' = cache_after(cache, query[p], the(outcome[p]))
    /\ response' = [response EXCEPT ![p] = Some(final_response(the(outcome[p])))]
    /\ pc' = [pc EXCEPT ![p] = "done"]
    /\ UNCHANGED <<query, model_idx, sql_query, result, outcome, trace,
                   query_log, api_key, sanVars, fbVars, cellVars>>

\* the cache_timeout seconds of the value cached under k run out
CacheExpire(k) ==
    /\ cache[k] /= None
    /\ cache' = [cache EXCEPT ![k] = None]
    /\ UNCHANGED <<reqVars, query_log, api_key, sanVars, fbVars, cellVars>>

Next ==
    \/ \E p \in Reqs :
        \/ Receive(p)
        \/ RemoteSkip(p)
        \/ RemoteAttempt(p)
        \/ Fallback(p)
        \/ Execute(p)
        \/ LogAndReturn(p)
        \/ HandleException(p)
        \/ Respond(p)
    \/ \E k \in CacheKeys : CacheExpire(k)

Spec == Init /\ [][Next]_vars

\* process_natural_language_query has ended for request p
Returned(p) == outcome[p] /= Pending

\* C1: every SQL string handed to the Query Executor is a value that the
\* Sanitizer returned in that request, on the remote-model path and on the
\* rule-based fallback path alike.
C1_ExecutedWasSanitized ==
    \A p \in Reqs : \A i \in 1..Len(trace[p].executed) :
        trace[p].executed[i] \in trace[p].sanitized

\* C3 as stated: when the Sanitizer rejects the text of a remote model, the
\* fallback generator is not invoked for that request and the response has
\* success = false.
C3_RejectionFailsRequest ==
    \A p \in Reqs :
        (trace[p].rejected /\ pc[p] = "done") =>
            /\ ~trace[p].fallback_called
            /\ ~the(response[p]).success

\* C3 amended: when the Sanitizer rejects the text of a remote model, the
\* orchestrator invokes the fallback generator for that request and, unless
\* an exception is caught, hands its query to the Executor; the response
\* has success = false only when that execution fails or an exception was
\* caught.
C3_RejectionFallsBack ==
    \A p \in Reqs :
        (trace[p].rejected /\ Returned(p)) =>
            /\ trace[p].fallback_called
            /\ IF trace[p].raised
               THEN ~the(outcome[p]).response.success
               ELSE /\ trace[p].executed = <<query_fallback_local(query[p])>>
                    /\ the(outcome[p]).response.success = the(result[p]).success

\* a request whose remote text was rejected ended with success = true
C3_Witness ==
    \E p \in Reqs :
        /\ trace[p].rejected
        /\ pc[p] = "done"
        /\ trace[p].fallback_called
        /\ the(response[p]).success

\* C4: what the Remote Query Generator returns is the Sanitizer's output
\* for the first model whose text is accepted, and it returns "no result"
\* only when no model of the list yields an accepted result: a model whose
\* text the Sanitizer rejects does not keep the later models from being
\* tried.
C4_NoResultOnlyAfterAllModels ==
    \A p \in Reqs :
        /\ (api_key /\ pc[p] = "execute" /\ ~trace[p].fallback_called) =>
                /\ truthy(sql_query[p])
                /\ the(sql_query[p]) \in trace[p].sanitized
        /\ (api_key /\ pc[p] = "fallback") =>
                Len(trace[p].calls) = Len(models)

\* C5: the models are called one at a time in list order, each at most once
\* per request; an attempt ending in a status other than 200 or in an
\* exception is followed by the attempt on the next model and never reaches
\* the caller; after the last model has failed the fallback generator is
\* what the orchestrator invokes.
C5_SequentialAttempts ==
    \A p \in Reqs :
        LET t == trace[p]
            n == Len(t.calls)
        IN  /\ n <= Len(models)
            /\ t.calls = [i \in 1..n |-> i]
            /\ (n > 0 /\ t.last_ended \in {"status", "exception"}) =>
                   IF n < Len(models)
                   THEN pc[p] = "remote" /\ model_idx[p] = n + 1
                   ELSE pc[p] = "fallback" \/ t.fallback_called

\* all three models failed, the last with an exception, and the request
\* was answered from the fallback generator
C5_Witness ==
    \E p \in Reqs :
        /\ Len(trace[p].calls) = Len(models)
        /\ trace[p].last_ended = "exception"
        /\ trace[p].fallback_called
        /\ pc[p] = "done"
        /\ the(response[p]).status = 200

\* C9: process_natural_language_query never raises; when an exception
\* reached its except clause or the execution failed, it returns a response
\* with success = false and an error message, and _log_query was called
\* with success = false for the request.
C9_OrchestratorNeverRaises ==
    \A p \in Reqs :
        Returned(p) =>
            LET out == the(outcome[p])
                failed == \/ trace[p].raised
                          \/ (result[p] /= Pending /\ ~the(result[p]).success)
            IN  /\ ~out.raised
                /\ failed =>
                    /\ ~out.response.success
                    /\ out.response.error /= None
                    /\ the(out.response.error) /= ""
                    /\ Len(trace[p].logged) = 1
                    /\ ~trace[p].logged[1].success

\* an exception was caught and the request answered with success = false
C9_Witness ==
    \E p \in Reqs :
        /\ trace[p].raised
        /\ pc[p] = "done"
        /\ the(response[p]).status = 200
        /\ ~the(response[p]).success

\* C10: exactly one QueryLog row exists for every answered request with a
\* non-empty query, whichever path it took, the cache hit included (requests
\* whose row the logging collaborator failed to create are left aside).
C10_OneLogEntryPerRequest ==
    \A p \in Reqs :
        (/\ pc[p] = "done"
         /\ query[p] /= ""
         /\ \A i \in 1..Len(trace[p].logged) : trace[p].logged[i] \in query_log)
        => Cardinality({e \in query_log : e.request = p}) = 1

\* C11: the handler writes to the cache only a response whose success flag
\* is true, with a timeout of 300 seconds; answering a failed request leaves
\* the cache as it was, and a request with the same text that follows a
\* failed one misses the cache and runs the pipeline again.
C11_OnlySuccessCached ==
    /\ [](\A k \in CacheKeys :
            cache[k] /= None =>
                /\ the(cache[k]).value.success
                /\ the(cache[k]).timeout = 300)
    /\ [][\A p \in Reqs :
            (pc[p] = "respond" /\ pc'[p] = "done") =>
                IF the(outcome[p]).raised \/ ~the(outcome[p]).response.success
                THEN cache' = cache
                ELSE cache' = [cache EXCEPT ![cache_key(query[p])] =
                                Some([value |-> the(outcome[p]).response,
                                      timeout |-> 300])]]_vars
    /\ [](\A p \in Reqs : \A o \in trace[p].within :
            ~the(response[o]).success =>
                /\ ~trace[p].cache_hit
                /\ pc[p] /= "done" \/ trace[p].fallback_called
                                   \/ trace[p].calls /= << >>)

\* a request arrived after one with the same text had failed, ran the
\* pipeline and was answered with cached = false
C11_Witness ==
    \E p \in Reqs : \E o \in trace[p].within :
        /\ ~the(response[o]).success
        /\ pc[p] = "done"
        /\ trace[p].executed /= << >>
        /\ the(response[p]).status = 200
        /\ ~the(response[p]).cached
        /\ cache[cache_key(query[p])] = None

\* C12 as stated: for any request text, a request with the same text that
\* arrives within 300 seconds of the answer to the first one is answered
\* with cached = true and with the data and sql_query of the first answer.
C12_SecondRequestCached ==
    \A p \in Reqs : \A o \in trace[p].within :
        pc[p] = "done" =>
            /\ the(response[p]).status = 200
            /\ the(response[p]).cached
            /\ the(response[o]).status = 200
            /\ the(response[p]).data = the(response[o]).data
            /\ the(response[p]).sql_query = the(response[o]).sql_query

\* C12 amended: when the first request was answered with success = true, a
\* request with the same text that arrives within 300 seconds of that
\* answer is answered with cached = true and with the data and sql_query of
\* the first answer.
C12_SecondRequestCachedAfterSuccess ==
    \A p \in Reqs : \A o \in trace[p].within :
        (pc[p] = "done" /\ the(response[o]).success) =>
            /\ the(response[p]).status = 200
            /\ the(response[p]).cached
            /\ the(response[o]).status = 200
            /\ ~the(response[o]).cached
            /\ the(response[p]).data = the(response[o]).data
            /\ the(response[p]).sql_query = the(response[o]).sql_query

\* a request arrived after one with the same text had been answered with a
\* row, and was answered from the cache without executing anything
C12_Witness ==
    \E p \in Reqs : \E o \in trace[p].within :
        /\ pc[p] = "done"
        /\ the(response[o]).success
        /\ the(response[o]).row_count > 0
        /\ trace[p].cache_hit
        /\ the(response[p]).cached
        /\ trace[p].executed = << >>

\* C13: there is no single-flight: of two requests with the same text that
\* both missed the cache, each runs generation and execution itself, once,
\* and each is answered with cached = false.
C13_ConcurrentMissesBothRun ==
    \A p, q \in Reqs :
        (/\ p /= q
         /\ query[p] = query[q]
         /\ trace[p].executed /= << >>
         /\ trace[q].executed /= << >>) =>
            /\ ~trace[p].cache_hit
            /\ Len(trace[p].executed) = 1
            /\ result[p] /= Pending
            /\ pc[p] = "done" =>
                /\ the(response[p]).status = 200
                /\ ~the(response[p]).cached

\* both requests have executed their query and neither has written to the
\* cache yet
C13_Witness ==
    \E p, q \in Reqs :
        /\ p /= q
        /\ query[p] = query[q]
        /\ trace[p].executed /= << >>
        /\ trace[q].executed /= << >>
        /\ pc[p] \in {"log", "respond"}
        /\ pc[q] \in {"log", "respond"}
        /\ cache[cache_key(query[p])] = None

\* C14: without a credential no network call is made, the remote generator
\* returns no result, and every query that reaches the Executor or ends the
\* orchestrator comes from a call of the fallback generator.
C14_NoCredentialUsesFallback ==
    ~api_key =>
        \A p \in Reqs :
            /\ trace[p].calls = << >>
            /\ trace[p].sanitized = {}
            /\ (pc[p] \in {"execute", "log", "respond"} \/ Returned(p)) =>
                    trace[p].fallback_called
            /\ \A i \in 1..Len(trace[p].executed) :
                    trace[p].executed[i] = query_fallback_local(query[p])

\* without a credential a request was answered with success = true from the
\* query of the fallback generator
C14_Witness ==
    \E p \in Reqs :
        /\ ~api_key
        /\ pc[p] = "done"
        /\ trace[p].fallback_called
        /\ trace[p].calls = << >>
        /\ the(response[p]).status = 200
        /\ the(response[p]).success

\* C15: _execute_sql_query never raises: every execution leaves a result;
\* after a database error the result has success = false, the error
\* message, empty data and columns and row_count = 0; otherwise it has
\* success = true and row_count equal to the number of rows in data.
C15_ExecutorNeverRaises ==
    \A p \in Reqs :
        trace[p].executed /= << >> =>
            /\ result[p] /= Pending
            /\ pc[p] /= "execute"
            /\ LET res == the(result[p])
               IN  IF res.success
                   THEN /\ res.row_count = Len(res.data)
                        /\ res.error = None
                   ELSE /\ res.error /= None
                        /\ the(res.error) /= ""
                        /\ res.data = << >>
                        /\ res.columns = << >>
                        /\ res.row_count = 0

\* the conversion of a fetched row raised and the request was answered with
\* the error
C15_Witness ==
    \E p \in Reqs :
        /\ pc[p] = "done"
        /\ result[p] /= Pending
        /\ the(result[p]).error = Some("value cannot be converted")
        /\ the(response[p]).status = 200
        /\ ~the(response[p]).success

\* C16: when QueryLog.objects.create raises, _log_query absorbs it: the
\* orchestrator does not raise and returns the response it builds from the
\* query, the generated SQL and the execution result alone.
C16_LogFailureAbsorbed ==
    \A p \in Reqs :
        (trace[p].log_failed /\ Returned(p)) =>
            /\ ~the(outcome[p]).raised
            /\ the(outcome[p]).response =
                    IF trace[p].raised
                    THEN [success |-> FALSE, original_query |-> query[p],
                          sql_query |-> None, data |-> << >>,
                          columns |-> << >>, row_count |-> 0,
                          error |-> Some("Query processing failed: unexpected fault")]
                    ELSE [success |-> the(result[p]).success,
                          original_query |-> query[p],
                          sql_query |-> sql_query[p],
                          data |-> the(result[p]).data,
                          columns |-> the(result[p]).columns,
                          row_count |-> the(result[p]).row_count,
                          error |-> the(result[p]).error]
            /\ pc[p] = "done" => the(response[p]).status = 200

\* the log row could not be created and the request was answered with
\* success = true
C16_Witness ==
    \E p \in Reqs :
        /\ trace[p].log_failed
        /\ pc[p] = "done"
        /\ the(response[p]).status = 200
        /\ the(response[p]).success
        /\ ~\E e \in query_log : e.request = p

\* C17: a body that is malformed JSON (a text that does not parse, bytes
\* that are no text at all), and a JSON body whose query is missing, empty
\* or only whitespace, is answered with status 400 and success = false
\* without generation, execution, caching or logging; any other fault in
\* the handler is answered with status 500; every other request with 200.
C17_StatusCodes ==
    /\ [](\A p \in Reqs :
            pc[p] = "done" =>
                LET r == the(response[p])
                    b == trace[p].body
                IN  /\ (\/ b \in {"malformed", "undecodable"}
                        \/ (b \in {"missing", "json"} /\ query[p] = "")) =>
                            /\ r.status = 400
                            /\ ~r.success
                            /\ trace[p].calls = << >>
                            /\ ~trace[p].fallback_called
                            /\ trace[p].executed = << >>
                            /\ trace[p].logged = << >>
                    /\ b = "not_text" => (r.status = 500 /\ ~r.success)
                    /\ (b = "json" /\ query[p] /= "") => r.status = 200)
    /\ [][\A p \in Reqs :
            (pc[p] = "start" /\ pc'[p] = "done"
             /\ trace'[p].body \in {"malformed", "undecodable", "missing", "json"}
             /\ query'[p] = "") =>
                (cache' = cache /\ query_log' = query_log)]_vars

\* C25: a request served from the cache makes no remote model call, no
\* schema introspection and no SQL execution, calls neither generator nor
\* _log_query, and the step that serves it writes neither the cache nor the
\* QueryLog table; its response is the stored result with cached = TRUE.
C25_CacheHitFrame ==
    /\ [](\A p \in Reqs :
            trace[p].cache_hit =>
                /\ trace[p].calls = << >>
                /\ ~trace[p].introspected
                /\ ~trace[p].fallback_called
                /\ trace[p].sanitized = {}
                /\ trace[p].executed = << >>
                /\ trace[p].logged = << >>
                /\ \A e \in query_log : e.request /= p
                /\ pc[p] = "done"
                /\ outcome[p] = Pending)
    /\ [][\A p \in Reqs :
            (~trace[p].cache_hit /\ trace'[p].cache_hit) =>
                /\ cache' = cache
                /\ query_log' = query_log
                /\ cache[cache_key(query'[p])] /= None
                /\ LET stored == the(cache[cache_key(query'[p])]).value
                       sent == the(response'[p])
                   IN  /\ sent.status = 200
                       /\ sent.cached = TRUE
                       /\ \A f \in DOMAIN stored : sent[f] = stored[f]]_vars

\* a request was served from the cache while the other request, which had
\* filled it, had run a query and written a log row
C25_Witness ==
    \E p \in Reqs : \E o \in Reqs \ {p} :
        /\ trace[p].cache_hit
        /\ the(response[p]).cached
        /\ the(response[p]).success
        /\ trace[o].executed /= << >>
        /\ \E e \in query_log : e.request = o

\* C26: for a request that reached the execution, the arguments of its one
\* _log_query call agree with the response: generated_sql is the response's
\* sql_query and the string that was executed, success is the response's
\* success, result_count its row_count, cached is FALSE; a row of the table
\* for that request is that entry. For a request that ended in the except
\* clause the entry has generated_sql "", success FALSE and result_count 0.
C26_LogAgreesWithResponse ==
    \A p \in Reqs :
        /\ (Returned(p) /\ trace[p].executed /= << >>) =>
            /\ Len(trace[p].logged) = 1
            /\ Len(trace[p].executed) = 1
            /\ LET e == trace[p].logged[1]
                   r == the(outcome[p]).response
               IN  /\ r.sql_query = Some(e.generated_sql)
                   /\ e.generated_sql = trace[p].executed[1]
                   /\ e.success = r.success
                   /\ e.result_count = r.row_count
                   /\ e.cached = FALSE
                   /\ \A x \in query_log : x.request = p => x = e
                   /\ response[p] /= Pending =>
                        /\ the(response[p]).sql_query = Some(e.generated_sql)
                        /\ the(response[p]).success = e.success
                        /\ the(response[p]).row_count = e.result_count
        /\ (Returned(p) /\ trace[p].raised) =>
            /\ Len(trace[p].logged) = 1
            /\ trace[p].logged[1].generated_sql = ""
            /\ ~trace[p].logged[1].success
            /\ trace[p].logged[1].result_count = 0
            /\ ~trace[p].logged[1].cached
            /\ \A x \in query_log : x.request = p => x = trace[p].logged[1]

\* a failed execution was answered and its row is in the table
C26_Witness ==
    \E p \in Reqs :
        /\ response[p] /= Pending
        /\ trace[p].executed /= << >>
        /\ ~the(response[p]).success
        /\ \E e \in query_log :
            e.request = p /\ ~e.success /\ e.generated_sql = trace[p].executed[1]

----------------------------------------------------------------------------
(* SanitizerSpec: the Sanitizer applied to every bounded raw text *)

MaxFrags == 3

RawFragments ==
    <<FenceSql \o "\n", Fence, Backtick, "sql", " ", "\n", ";",
      "SELECT * FROM employees", "select name from ", "Employees",
      "created_at", "DROP TABLE employees;">>

RECURSIVE Concat(_)
Concat(fs) == IF fs = << >> THEN "" ELSE Head(fs) \o Concat(Tail(fs))

RawTexts ==
    { Concat([i \in DOMAIN f |-> RawFragments[f[i]]]) :
        f \in UNION { [1..k -> 1..Len(RawFragments)] : k \in 0..MaxFrags } }

SanInit ==
    /\ raw \in RawTexts
    /\ cleaned = Pending
    /\ recleaned = Pending
    /\ FbIdle
    /\ PipeIdle
    /\ CellIdle

Clean ==
    /\ cleaned = Pending
    /\ cleaned' = clean_sql_query(raw)
    /\ UNCHANGED <<raw, recleaned, fbVars, pipeVars, cellVars>>

CleanAgain ==
    /\ cleaned /= Pending
    /\ cleaned /= None
    /\ recleaned = Pending
    /\ recleaned' = clean_sql_query(cleaned[1])
    /\ UNCHANGED <<raw, cleaned, fbVars, pipeVars, cellVars>>

SanNext == Clean \/ CleanAgain

SanitizerSpec == SanInit /\ [][SanNext]_vars

Accepted(v) == v /= Pending /\ v /= None

\* C2: every query the Sanitizer returns starts with "select"
\* (case-insensitive), contains the table name "employees", ends with ";"
\* and contains none of the denylisted keywords as a substring.
C2_SanitizedOutputPolicy ==
    Accepted(cleaned) =>
        LET out == cleaned[1]
            out_lower == lower(out)
        IN  /\ startswith(out_lower, "select")
            /\ Contains(out_lower, "employees")
            /\ endswith(out, ";")
            /\ \A kw \in {"drop", "delete", "update", "insert", "alter",
                           "create", "truncate", "grant", "revoke"} :
                    ~Contains(out_lower, kw)

\* a fenced, upper-case candidate without a semicolon was accepted
C2_Witness ==
    /\ Accepted(cleaned)
    /\ Contains(raw, Fence)
    /\ Contains(raw, "SELECT")
    /\ ~endswith(raw, ";")

\* C8: the Sanitizer applied to a query it returned accepts it and returns
\* exactly that query.
C8_SanitizerIdempotent ==
    (Accepted(cleaned) /\ recleaned /= Pending) => recleaned = cleaned

\* the second pass ran on an output that differs from the raw text
C8_Witness ==
    /\ Accepted(cleaned)
    /\ recleaned /= Pending
    /\ cleaned[1] /= raw
    /\ Contains(raw, Fence)

\* C22: the Sanitizer rejects exactly when the text, with the code fences
\* removed and the whitespace trimmed, is empty, does not start with select,
\* holds a denylisted keyword as a substring or does not hold employees
\* (case-insensitive); otherwise it returns that text, with one ";" appended
\* when it does not end with one. A column name such as created_at is
\* enough to reject.
C22_SanitizerRejectsExactly ==
    cleaned /= Pending =>
        LET t == strip_markdown(raw)
            low == lower(t)
            reject ==
                \/ t = ""
                \/ ~startswith(low, "select")
                \/ \E kw \in {"drop", "delete", "update", "insert", "alter",
                              "create", "truncate", "grant", "revoke"} :
                        Contains(low, kw)
                \/ ~Contains(low, "employees")
        IN  /\ cleaned /= None <=> ~reject
            /\ cleaned /= None =>
                    cleaned[1] = IF endswith(t, ";") THEN t ELSE t \o ";"
            /\ (raw /= "" /\ Contains(low, "created_at")) => cleaned = None

\* a SELECT on employees was rejected for a created_at column alone
C22_Witness ==
    /\ cleaned = None
    /\ startswith(lower(strip_markdown(raw)), "select")
    /\ Contains(lower(strip_markdown(raw)), "employees")
    /\ Contains(raw, "created_at")
    /\ ~Contains(lower(raw), "drop")

----------------------------------------------------------------------------
(* FallbackSpec: the Fallback Generator applied to every bounded user text *)

MaxWords == 3

UserWords ==
    <<"How many", "department", "IT", "show employees", "details",
      "earning over 50000", "salary", "hired", "last year", "2024",
      "name like", "email", "position">>

UserTexts ==
    { join(" ", [i \in DOMAIN f |-> UserWords[f[i]]]) :
        f \in UNION { [1..k -> 1..Len(UserWords)] : k \in 0..MaxWords } }

\* the example questions of the service
ExampleTexts ==
    {"Show me all employees in the company",
     "How many employees work in the IT department?",
     "Employees earning over 50000"}

FbInit ==
    /\ user_text \in UserTexts \cup ExampleTexts \cup {" ", "\n \t"}
    /\ fallback_sql = Pending
    /\ SanIdle
    /\ PipeIdle
    /\ CellIdle

Generate ==
    /\ fallback_sql = Pending
    /\ fallback_sql' = Some(query_fallback_local(user_text))
    /\ UNCHANGED <<user_text, sanVars, pipeVars, cellVars>>

FbNext == Generate

FallbackSpec == FbInit /\ [][FbNext]_vars

\* the first keyword of a statement: its first run of non-blank characters
RECURSIVE FirstWord(_)
FirstWord(s) ==
    LET t == lstrip(s)
    IN  IF t = "" \/ IsSpace(SubSeq(t, 1, 1)) THEN ""
        ELSE SubSeq(t, 1, 1)
             \o (IF Len(t) = 1 \/ IsSpace(SubSeq(t, 2, 2)) THEN ""
                 ELSE FirstWord(SubSeq(t, 2, Len(t))))

\* C6: for every text, the empty and the blank one included, the Fallback
\* Generator returns a non-empty string whose first keyword is SELECT.
C6_FallbackTotal ==
    fallback_sql /= Pending =>
        /\ fallback_sql /= None
        /\ fallback_sql[1] /= ""
        /\ FirstWord(fallback_sql[1]) = "SELECT"

\* the generator answered a text made of whitespace only
C6_Witness ==
    /\ fallback_sql /= Pending
    /\ user_text /= ""
    /\ strip(user_text) = ""

\* The rule predicates of the dispatch order, on the lower-cased text:
\* 1 count intent, 2 list phrase without details intent, 3 the word
\* department with a listed department name, 4 salary intent with a
\* comparison word and a number, 5 hiring word with a temporal qualifier,
\* 6 name-pattern search, 7 email, 8 position intent, 9 default.
RuleMatches(n, t) ==
    CASE n = 1 -> any_in({"count", "how many", "number of"}, t)
      [] n = 2 -> /\ any_in({"all employees", "show employees", "list employees"}, t)
                  /\ ~any_in({"details", "information", "everything"}, t)
      [] n = 3 -> /\ Contains(t, "department")
                  /\ any_in({"it", "hr", "sales", "marketing", "finance",
                              "engineering", "operations"}, t)
      [] n = 4 -> /\ any_in({"salary", "pay", "wage", "earning", "income"}, t)
                  /\ any_in({"greater", "more than", "above", "over"}, t)
                  /\ \E i \in 1..Len(t) : IsDigit(SubSeq(t, i, i))
      [] n = 5 -> /\ any_in({"joined", "hired", "recent", "new"}, t)
                  /\ any_in({"last year", "2023", "this year", "2024"}, t)
      [] n = 6 -> /\ Contains(t, "name")
                  /\ any_in({"contains", "like", "starts", "ends"}, t)
      [] n = 7 -> Contains(t, "email")
      [] n = 8 -> any_in({"position", "job", "title", "role"}, t)
      [] OTHER -> TRUE

\* the first rule, in the fixed order, whose predicate the text matches
FirstRule(text) ==
    LET t == lower(text)
    IN  CHOOSE n \in 1..9 :
            RuleMatches(n, t) /\ \A m \in 1..(n - 1) : ~RuleMatches(m, t)

\* the rule whose template a returned statement is, 0 for none of them
TemplateRule(out) ==
    IF Contains(out, "COUNT(*)") THEN 1
    ELSE IF Contains(out, "hire_date") /\ endswith(strip(out), " DESC LIMIT 50;") THEN 5
    ELSE IF Contains(out, " WHERE salary > ")
            /\ endswith(out, " ORDER BY salary DESC LIMIT 50;") THEN 4
    ELSE IF Contains(out, " WHERE LOWER(department) LIKE ")
            /\ endswith(out, " ORDER BY name LIMIT 50;") THEN 3
    ELSE IF out = "SELECT name FROM employees WHERE name IS NOT NULL ORDER BY name LIMIT 100;" THEN 6
    ELSE IF out = "SELECT name, email, department FROM employees WHERE email IS NOT NULL ORDER BY name LIMIT 100;" THEN 7
    ELSE IF out = "SELECT name, position, department FROM employees WHERE position IS NOT NULL ORDER BY name LIMIT 100;" THEN 8
    ELSE IF out = "SELECT name FROM employees ORDER BY name LIMIT 20;" THEN 9
    ELSE IF endswith(out, " FROM employees ORDER BY name LIMIT 100;") THEN 2
    ELSE 0

NamesIn(t) ==
    { n \in {"it", "hr", "sales", "marketing", "finance", "engineering",
             "operations"} : Contains(t, n) }

CountIntent(t) == any_in({"count", "how many", "number of"}, t)

\* C18 as stated: for a text with count intent the statement is a COUNT(*)
\* aggregate: filtered by LOWER(department) LIKE '%<name>%' when a name of
\* the fixed list occurs in the text, grouped by department when the word
\* department occurs without such a name, an unfiltered total otherwise;
\* the IT example gets the filter '%it%'.
C18_CountTemplates ==
    (fallback_sql /= Pending /\ CountIntent(lower(user_text))) =>
        LET t == lower(user_text)
            out == fallback_sql[1]
        IN  /\ Contains(out, "COUNT(*)")
            /\ IF NamesIn(t) /= {}
               THEN \E n \in NamesIn(t) :
                        Contains(out, " WHERE LOWER(department) LIKE '%" \o n \o "%'")
               ELSE IF Contains(t, "department")
               THEN Contains(out, " GROUP BY department") /\ ~Contains(out, "LIKE")
               ELSE ~Contains(out, "WHERE") /\ ~Contains(out, "GROUP BY")
            /\ user_text = "How many employees work in the IT department?" =>
                    Contains(out, " WHERE LOWER(department) LIKE '%it%'")

\* C18 amended: the count is filtered by LOWER(department) LIKE '%<name>%'
\* when the text holds the word department and a name of the fixed list,
\* grouped by department when it holds the word department without such a
\* name, and an unfiltered total otherwise, a name without the word
\* department included; the IT example gets the filter '%it%'.
C18_CountTemplatesWithDepartmentWord ==
    (fallback_sql /= Pending /\ CountIntent(lower(user_text))) =>
        LET t == lower(user_text)
            out == fallback_sql[1]
        IN  /\ Contains(out, "COUNT(*)")
            /\ IF Contains(t, "department") /\ NamesIn(t) /= {}
               THEN \E n \in NamesIn(t) :
                        Contains(out, " WHERE LOWER(department) LIKE '%" \o n \o "%'")
               ELSE IF Contains(t, "department")
               THEN Contains(out, " GROUP BY department") /\ ~Contains(out, "LIKE")
               ELSE ~Contains(out, "WHERE") /\ ~Contains(out, "GROUP BY")
            /\ user_text = "How many employees work in the IT department?" =>
                    Contains(out, " WHERE LOWER(department) LIKE '%it%'")

\* the IT example was answered with the count filtered by '%it%'
C18_Witness ==
    /\ fallback_sql /= Pending
    /\ user_text = "How many employees work in the IT department?"
    /\ fallback_sql[1] =
         "SELECT COUNT(*) as count FROM employees WHERE LOWER(department) LIKE '%it%';"

\* the first maximal run of digits of a text that holds a digit
FirstDigits(t) ==
    LET i == CHOOSE i \in 1..Len(t) :
                /\ IsDigit(SubSeq(t, i, i))
                /\ \A k \in 1..(i - 1) : ~IsDigit(SubSeq(t, k, k))
        j == CHOOSE j \in i..Len(t) :
                /\ \A k \in i..j : IsDigit(SubSeq(t, k, k))
                /\ j = Len(t) \/ ~IsDigit(SubSeq(t, j + 1, j + 1))
    IN  SubSeq(t, i, j)

\* salary intent, a comparison word and a digit, and none of the count, the
\* list and the department rule matches
SalaryCase(t) ==
    /\ any_in({"salary", "pay", "wage", "earning", "income"}, t)
    /\ any_in({"greater", "more than", "above", "over"}, t)
    /\ \E i \in 1..Len(t) : IsDigit(SubSeq(t, i, i))
    /\ ~CountIntent(t)
    /\ ~(/\ any_in({"all employees", "show employees", "list employees"}, t)
         /\ ~any_in({"details", "information", "everything"}, t))
    /\ ~(Contains(t, "department") /\ NamesIn(t) /= {})

\* C19: for a text with salary intent, a comparison word and a digit
\* sequence that no rule of higher priority matches, the statement filters
\* on salary > N, N the first digit sequence of the text, is ordered by
\* salary descending and capped at 50; the 50000 example gets salary > 50000.
C19_SalaryFilter ==
    fallback_sql /= Pending =>
        /\ SalaryCase(lower(user_text)) =>
            /\ startswith(fallback_sql[1], "SELECT ")
            /\ endswith(fallback_sql[1],
                        " FROM employees WHERE salary > "
                        \o FirstDigits(lower(user_text))
                        \o " ORDER BY salary DESC LIMIT 50;")
        /\ user_text = "Employees earning over 50000" =>
            /\ SalaryCase(lower(user_text))
            /\ Contains(fallback_sql[1], " WHERE salary > 50000 ORDER BY salary DESC LIMIT 50;")

\* a text with two numbers got the filter on the first one
C19_Witness ==
    /\ fallback_sql /= Pending
    /\ SalaryCase(lower(user_text))
    /\ Contains(user_text, "50000")
    /\ FirstDigits(lower(user_text)) = "2024"
    /\ Contains(fallback_sql[1], " WHERE salary > 2024 ORDER BY")

\* a list phrase, neither details intent nor count intent
ListCase(t) ==
    /\ any_in({"all employees", "show employees", "list employees"}, t)
    /\ ~any_in({"details", "information", "everything"}, t)
    /\ ~CountIntent(t)

\* C20: for a text with a generic list phrase and neither details nor count
\* intent the statement is SELECT <projected columns> FROM employees ORDER
\* BY name LIMIT 100; and without a credential it is the statement executed
\* for "Show me all employees in the company".
C20_ListTemplate ==
    /\ fallback_sql /= Pending =>
        /\ ListCase(lower(user_text)) =>
                fallback_sql[1] =
                    "SELECT " \o join(", ", columns(lower(user_text)))
                    \o " FROM employees ORDER BY name LIMIT 100;"
        /\ user_text = "Show me all employees in the company" =>
            /\ ListCase(lower(user_text))
            /\ fallback_sql[1] = "SELECT name FROM employees ORDER BY name LIMIT 100;"
    /\ \A p \in Reqs :
        (/\ ~api_key
         /\ query[p] = "Show me all employees in the company"
         /\ trace[p].executed /= << >>) =>
            trace[p].executed =
                <<"SELECT name FROM employees ORDER BY name LIMIT 100;">>

\* a list question that names the salary got name and salary, capped at 100
C20_Witness ==
    /\ fallback_sql /= Pending
    /\ ListCase(lower(user_text))
    /\ Contains(lower(user_text), "salary")
    /\ fallback_sql[1] = "SELECT name, salary FROM employees ORDER BY name LIMIT 100;"

\* name, then the columns of the intents the lower-cased text matches
ProjectedColumns(t) ==
    <<"name">>
    \o (IF any_in({"department", "dept"}, t) THEN <<"department">> ELSE << >>)
    \o (IF any_in({"salary", "pay", "wage", "earning", "income"}, t)
        THEN <<"salary">> ELSE << >>)
    \o (IF any_in({"position", "job", "title", "role"}, t)
        THEN <<"position">> ELSE << >>)
    \o (IF any_in({"joined", "hired", "date", "when"}, t)
        THEN <<"date_of_join">> ELSE << >>)

\* C23: in the list, the department and the salary template the SELECT list
\* is "*" when the text has details intent; otherwise it is name followed
\* by those of department, salary, position, date_of_join whose intent the
\* text matches, in that order, and name alone when no intent matches.
C23_ProjectedColumns ==
    (fallback_sql /= Pending /\ TemplateRule(fallback_sql[1]) \in {2, 3, 4}) =>
        LET t == lower(user_text)
            expected ==
                IF any_in({"details", "information", "everything"}, t)
                THEN "*"
                ELSE join(", ", ProjectedColumns(t))
        IN  startswith(fallback_sql[1],
                       "SELECT " \o expected \o " FROM employees")

\* a department question with details intent got every column
C23_Witness ==
    /\ fallback_sql /= Pending
    /\ TemplateRule(fallback_sql[1]) = 3
    /\ Contains(lower(user_text), "details")
    /\ startswith(fallback_sql[1], "SELECT * FROM employees WHERE ")

\* C24: every statement the Fallback Generator returns is one the Sanitizer
\* accepts: trimmed, it starts with SELECT, holds employees and no
\* denylisted substring, and the Sanitizer returns it trimmed and otherwise
\* unchanged; so is every statement executed on the fallback path.
C24_FallbackOutputAccepted ==
    /\ fallback_sql /= Pending =>
        LET t == strip(fallback_sql[1])
            low == lower(t)
        IN  /\ startswith(t, "SELECT")
            /\ Contains(low, "employees")
            /\ \A kw \in {"drop", "delete", "update", "insert", "alter",
                           "create", "truncate", "grant", "revoke"} :
                    ~Contains(low, kw)
            /\ clean_sql_query(fallback_sql[1]) = Some(t)
    /\ \A i \in DOMAIN departments :
        \A kw \in {"drop", "delete", "update", "insert", "alter", "create",
                   "truncate", "grant", "revoke"} :
            ~Contains("'%" \o lower(departments[i]) \o "%'", kw)
    /\ \A p \in Reqs :
        trace[p].fallback_called =>
            \A i \in 1..Len(trace[p].executed) :
                clean_sql_query(trace[p].executed[i]) /= None

\* the last-year statement, which starts with a line break, was returned
C24_Witness ==
    /\ fallback_sql /= Pending
    /\ startswith(fallback_sql[1], "\n")
    /\ Contains(fallback_sql[1], "INTERVAL '1 year'")
    /\ clean_sql_query(fallback_sql[1]) /= None

----------------------------------------------------------------------------
(* ExecutorSpec: the row conversion applied to every bounded row *)

MaxCells == 2

ColumnNames == {"name", "salary", "Base_Salary", "date_of_join"}

\* what the driver returns: text, NULL, a DATE, DOUBLE PRECISION, INTEGER
\* and NUMERIC(10, 2) values
CellValues ==
    { DriverValue("str", 0, 0, 0, "Asha"),
      DriverValue("NoneType", 0, 0, 0, ""),
      DriverValue("date", 2024, 3, 5, ""),
      DriverValue("float", 1234, 0, 0, ""),
      DriverValue("float", 1236, 0, 0, ""),
      DriverValue("float", 125, 0, 0, ""),
      DriverValue("float", 50000000, 0, 0, ""),
      DriverValue("int", 52000, 0, 0, ""),
      DriverValue("Decimal", 5000050, 0, 0, "") }

CellInit ==
    /\ \E n \in 1..MaxCells :
        /\ description \in [1..n -> ColumnNames]
        /\ row \in [1..n -> CellValues]
    /\ row_dict = Pending
    /\ SanIdle
    /\ FbIdle
    /\ PipeIdle

Convert ==
    /\ row_dict = Pending
    /\ row_dict' = Some(convert_row(row, description))
    /\ UNCHANGED <<description, row, sanVars, fbVars, pipeVars>>

CellNext == Convert

ExecutorSpec == CellInit /\ [][CellNext]_vars

\* the cell of the dictionary that cell i of the row was converted to,
\* for a cell whose column name no later cell has
CellOf(i) == the(row_dict)[description[i]]

Overwritten(i) == \E j \in (i + 1)..Len(row) : description[j] = description[i]

\* C21: every cell is converted by one rule: a temporal value becomes its
\* ISO-8601 string, a numeric value in a column whose name contains salary
\* becomes that number rounded to two decimal places, null stays null, any
\* other value becomes its string representation; every converted cell is
\* a number, a string or null.
C21_CellConversion ==
    row_dict /= Pending =>
        \A i \in 1..Len(row) :
            ~Overwritten(i) =>
                LET value == row[i]
                    out == CellOf(i)
                IN  /\ out.json \in {"string", "number", "null"}
                    /\ IF value.type = "date"
                       THEN /\ out.json = "string"
                            /\ Len(out.text) = 10
                            /\ SubSeq(out.text, 5, 5) = "-"
                            /\ SubSeq(out.text, 8, 8) = "-"
                       ELSE IF /\ value.type \in {"float", "int", "Decimal"}
                               /\ Contains(lower(description[i]), "salary")
                       THEN /\ out.json = "number"
                            /\ LET exact == CASE value.type = "float" -> value.a
                                              [] value.type = "int" -> value.a * 1000
                                              [] OTHER -> value.a * 10
                               IN  /\ 10 * out.centi - exact <= 5
                                   /\ exact - 10 * out.centi <= 5
                       ELSE IF value.type = "NoneType"
                       THEN out.json = "null"
                       ELSE out.json = "string" /\ out.text /= ""

====
